---- MODULE Spec2Model ----
(***************************************************************************)
(* The S3 -> Milvus ingestion service of src/app.py.                       *)
(*                                                                         *)
(* One request of POST /process-file is one run of process_file.  The      *)
(* hosting framework gives every request its own thread of control, so     *)
(* the requests of the model advance independently, one external call      *)
(* (object store, embedding model, vector database) per step.  Python      *)
(* strings are sequences of one-character strings, a formatted string is   *)
(* its literal text (kept as one element) followed by the characters of    *)
(* the interpolated value.                                                 *)
(***************************************************************************)
EXTENDS Integers, Sequences, FiniteSets, TLC

\* ------------------------------------------------------------------ bounds
\* Requests the service receives in one behaviour.
MaxRequests == 2
\* Longest file_key handed to the path parsing when it is checked alone.
MaxKeyLen == 4
\* Longest folder name handed to create_or_get_collection when it is checked alone.
MaxSegLen == 2

Requests == 1..MaxRequests

\* ------------------------------------------------------------ Python values
\* Python's None.  Strings are sequences of one-character strings, so no
\* string equals it.
None == <<"None">>

\* `not v` for the values a JSON string field can take here.
falsy(v) == v = None \/ v = <<>>

\* str.split(sep): the segments between the separators; the empty string
\* splits into one empty segment.
split(s, sep) ==
    LET parts[i \in 0..Len(s)] ==
            IF i = 0 THEN << <<>> >>
            ELSE IF s[i] = sep
                 THEN Append(parts[i - 1], <<>>)
                 ELSE [parts[i - 1] EXCEPT ![Len(parts[i - 1])] = Append(@, s[i])]
    IN parts[Len(s)]

\* dict.get(key): the value, or None when the key is absent.
get(d, k) == IF k \in DOMAIN d THEN d[k] ELSE None

\* A split that drops the empty segments.
path_parts_dropping_empty(key) ==
    LET all == split(key, "/") IN SelectSeq(all, LAMBDA p : p # <<>>)

\* path_parts = file_key.split('/')
path_parts(key) == split(key, "/")

\* the length test that rejects a key
invalid_path(parts) == Len(parts) < 3

\* A name that joins the two folders without the underscore.
full_collection_name_unseparated(parent_collection_name, subfolder_name) ==
    parent_collection_name \o subfolder_name

\* full_collection_name = f"{parent_collection_name}_{subfolder_name}"
full_collection_name(parent_collection_name, subfolder_name) ==
    parent_collection_name \o <<"_">> \o subfolder_name

\* A presence check that forgets the bucket name.
missing_file_key_only(bucket, key) == falsy(key)

\* `not bucket_name or not file_key`
missing(bucket, key) == falsy(bucket) \/ falsy(key)

\* model.encode(text): one embedding, a numpy array of 768 floats whose
\* numbers play no part in the control flow.
encode(text) == [kind |-> "ndarray", of |-> text]

\* A wrapping that yields the row twice.
as_rows_twice(embedding) == << embedding, embedding >>

\* [vector.tolist()] if isinstance(vector, np.ndarray) else [vector]
as_rows(embedding) ==
    IF embedding.kind = "ndarray"
    THEN << [kind |-> "list", of |-> embedding.of] >>
    ELSE << embedding >>

\* An insert that stores nothing.
rows_of_none(data) == 0

\* collection.insert(data): data is a list of columns, the rows inserted
\* are the entries of the (only) column.
rows_of(data) == Len(data[1])

\* the argument of collection.insert
insert_data(vector) == << vector >>

\* ---------------------------------------------------------------- responses
missing_response ==
    [status |-> 400, field |-> "error", text |-> <<"Missing bucket_name or file_key">>]

invalid_response(key) ==
    [status |-> 400, field |-> "error", text |-> <<"Invalid file path: ">> \o key]

\* A message that names the key up to its third segment only.
success_response_truncated(key) ==
    [status |-> 200, field |-> "message",
     text |-> <<"Successfully inserted vector for ">>
              \o split(key, "/")[1] \o <<"/">> \o split(key, "/")[2]
              \o <<"/">> \o split(key, "/")[3]]

success_response(key) ==
    [status |-> 200, field |-> "message",
     text |-> <<"Successfully inserted vector for ">> \o key]

\* An error message that leaves the detail out.
error_response_without_detail(detail) ==
    [status |-> 500, field |-> "error", text |-> <<"Error inserting vector: ">>]

error_response(detail) ==
    [status |-> 500, field |-> "error", text |-> <<"Error inserting vector: ", detail>>]

\* No response: the request is in flight, or an exception left process_file.
NoResponse == [status |-> 0, field |-> "", text |-> <<>>]

\* ------------------------------------------------------------------- inputs
\* The file keys of the requests: one segment, three segments, four segments
\* under the same prefix, an empty middle segment.
FileKeys ==
    { <<"a">>,
      <<"a", "/", "b", "/", "f">>,
      <<"a", "/", "b", "/", "g", "/", "h">>,
      <<"a", "/", "/", "f">> }

BucketNames == { <<"d">> }

\* The JSON objects of the request bodies: each field absent, empty or set.
Bodies ==
    LET buckets == BucketNames \cup {<<>>}
        keys == FileKeys \cup {<<>>}
    IN  { [f \in {"bucket_name", "file_key"} |-> IF f = "bucket_name" THEN b ELSE k] :
            b \in buckets, k \in keys }
        \cup { [f \in {"bucket_name"} |-> b] : b \in BucketNames }
        \cup { [f \in {"file_key"} |-> k] : k \in FileKeys }
        \cup { [f \in {} |-> <<>>] }

\* What str(e) can be for an exception of an external call.
Details == {"timeout"}

\* An external call returns or raises.
Outcomes == {"ok"} \cup Details

\* All strings over an alphabet up to a length.
Strings(alphabet, n) == UNION { [1..k -> alphabet] : k \in 0..n }

\* -------------------------------------------------------------------- state
VARIABLES
    pc,             \* per request: where process_file stands
    data,           \* per request: the JSON object of the request body
    bucket_name,    \* per request: local of process_file
    file_key,       \* per request: local of process_file
    file_content,   \* per request: local of process_file
    vector,         \* per request: local of process_file
    parent_folder,  \* per request: local of process_file
    subfolder,      \* per request: local of process_file
    name,           \* per request: full_collection_name of create_or_get_collection
    collection,     \* per request: the handle create_or_get_collection returned
    response,       \* per request: what process_file returned
    calls,          \* per request: the external calls it issued, in order
    milvus,         \* the vector database: collection name -> rows held and flushed
    serial,         \* whether the server handles one request at a time
    probe_key,      \* a file key whose parsing is checked alone
    probe_target,   \* the collections two requests with probe_key resolve
    probe_args,     \* two (parent, subfolder) pairs
    probe_names     \* the names create_or_get_collection gives them

locals == <<data, bucket_name, file_key, file_content, vector, parent_folder, subfolder, name,
            collection>>
request_vars == <<pc, locals, response, calls>>
probe_vars == <<probe_key, probe_target, probe_args, probe_names>>
vars == <<request_vars, milvus, serial, probe_vars>>

\* An external call of a request: the operation, its argument, how it ended.
Call(op, arg, out) == [op |-> op, arg |-> arg, out |-> out]

Issue(r, op, arg, out) == calls' = [calls EXCEPT ![r] = Append(@, Call(op, arg, out))]

\* An exception leaves process_file: no response of its own.
Raise(r) ==
    /\ pc' = [pc EXCEPT ![r] = "raised"]
    /\ response' = [response EXCEPT ![r] = NoResponse]

\* process_file returns a response.
Return(r, resp) ==
    /\ pc' = [pc EXCEPT ![r] = "returned"]
    /\ response' = [response EXCEPT ![r] = resp]

Goto(r, label) ==
    /\ pc' = [pc EXCEPT ![r] = label]
    /\ UNCHANGED response

\* Under a server that handles one request at a time, a request advances
\* only while no other request is in flight.
in_flight(r) == pc[r] \notin {"idle", "returned", "raised"}

scheduled(r) == serial => \A q \in Requests \ {r} : ~in_flight(q)

\* The objects of the store hold UTF-8 text or bytes that are no UTF-8.
Contents == { <<"t">>, <<"\\xff">> }

\* bytes.decode('utf-8') raises on bytes that are no UTF-8.
decodable(bytes) == bytes # <<"\\xff">>

\* A check that never finds the collection.
has_collection_never(n) == FALSE

\* utility.has_collection(full_collection_name)
has_collection(n) == n \in DOMAIN milvus

\* A creation that waits while a request that arrived earlier is about to
\* create a collection.
may_create_locked(r) ==
    pc[r] = "create" /\ \A q \in Requests \ {r} : q < r => pc[q] # "create"

\* create_or_get_collection creates the collection when has_collection
\* answered False; nothing else is waited for.
may_create(r) == pc[r] = "create"

\* The collection a name stands for once it is created: no rows.
empty_collection == [rows |-> 0, flushed |-> 0]

\* ------------------------------------------------------------------ actions
\* Lines 69-74: the request arrives (requests are numbered in the order of
\* their arrival), the two fields are read and their presence is checked.
Receive(r) ==
    /\ pc[r] = "idle"
    /\ scheduled(r)
    /\ \A q \in Requests : q < r => pc[q] # "idle"
    /\ \E body \in Bodies :
         /\ data' = [data EXCEPT ![r] = body]
         /\ bucket_name' = [bucket_name EXCEPT ![r] = get(body, "bucket_name")]
         /\ file_key' = [file_key EXCEPT ![r] = get(body, "file_key")]
         /\ IF missing(get(body, "bucket_name"), get(body, "file_key"))
            THEN Return(r, missing_response)
            ELSE Goto(r, "get_object")
    /\ UNCHANGED <<file_content, vector, parent_folder, subfolder, name, collection,
                   calls, milvus, serial, probe_vars>>

\* Lines 79-80: s3_client.get_object and the decoding of its body.
GetObject(r) ==
    /\ pc[r] = "get_object"
    /\ scheduled(r)
    /\ \E out \in Outcomes, bytes \in Contents :
         /\ Issue(r, "get_object", <<bucket_name[r], file_key[r]>>, out)
         /\ IF out = "ok" /\ decodable(bytes)
            THEN /\ file_content' = [file_content EXCEPT ![r] = bytes]
                 /\ Goto(r, "encode")
            ELSE /\ UNCHANGED file_content
                 /\ Raise(r)
    /\ UNCHANGED <<data, bucket_name, file_key, vector, parent_folder, subfolder, name,
                   collection, milvus, serial, probe_vars>>

\* Lines 84-88: model.encode and the wrapping of the embedding as one row.
Encode(r) ==
    /\ pc[r] = "encode"
    /\ scheduled(r)
    /\ \E out \in Outcomes :
         /\ Issue(r, "encode", file_content[r], out)
         /\ IF out = "ok"
            THEN /\ vector' = [vector EXCEPT ![r] = as_rows(encode(file_content[r]))]
                 /\ Goto(r, "parse")
            ELSE /\ UNCHANGED vector
                 /\ Raise(r)
    /\ UNCHANGED <<data, bucket_name, file_key, file_content, parent_folder, subfolder, name,
                   collection, milvus, serial, probe_vars>>

\* Lines 91-96: the key is split and keys of fewer than three segments are
\* rejected.
ParsePath(r) ==
    /\ pc[r] = "parse"
    /\ scheduled(r)
    /\ IF invalid_path(path_parts(file_key[r]))
       THEN /\ Return(r, invalid_response(file_key[r]))
            /\ UNCHANGED <<parent_folder, subfolder>>
       ELSE /\ parent_folder' = [parent_folder EXCEPT ![r] = path_parts(file_key[r])[1]]
            /\ subfolder' = [subfolder EXCEPT ![r] = path_parts(file_key[r])[2]]
            /\ Goto(r, "has_collection")
    /\ UNCHANGED <<data, bucket_name, file_key, file_content, vector, name, collection,
                   calls, milvus, serial, probe_vars>>

\* Lines 99, 50-52: create_or_get_collection names the collection and asks
\* the database whether it exists.
HasCollection(r) ==
    /\ pc[r] = "has_collection"
    /\ scheduled(r)
    /\ name' = [name EXCEPT ![r] = full_collection_name(parent_folder[r], subfolder[r])]
    /\ \E out \in Outcomes :
         IF out = "ok"
         THEN /\ Issue(r, "has_collection", name'[r],
                       IF has_collection(name'[r]) THEN "True" ELSE "False")
              /\ Goto(r, IF has_collection(name'[r]) THEN "open" ELSE "create")
         ELSE /\ Issue(r, "has_collection", name'[r], out)
              /\ Raise(r)
    /\ UNCHANGED <<data, bucket_name, file_key, file_content, vector, parent_folder, subfolder,
                   collection, milvus, serial, probe_vars>>

\* Lines 53-55: the handle of the existing collection and its entity count.
OpenCollection(r) ==
    /\ pc[r] = "open"
    /\ scheduled(r)
    /\ \E out \in Outcomes :
         /\ Issue(r, "get_collection", name[r], out)
         /\ IF out = "ok"
            THEN /\ collection' = [collection EXCEPT ![r] = name[r]]
                 /\ Goto(r, "num_entities")
            ELSE /\ UNCHANGED collection
                 /\ Raise(r)
    /\ UNCHANGED <<data, bucket_name, file_key, file_content, vector, parent_folder, subfolder,
                   name, milvus, serial, probe_vars>>

\* Lines 58-65: the collection is created.  When another request created it
\* in the meantime the database rejects the call or answers with the
\* existing collection.
CreateCollection(r) ==
    /\ may_create(r)
    /\ scheduled(r)
    /\ \E out \in Outcomes :
         /\ Issue(r, "create_collection", name[r], out)
         /\ IF out = "ok"
            THEN /\ collection' = [collection EXCEPT ![r] = name[r]]
                 /\ milvus' = IF name[r] \in DOMAIN milvus
                              THEN milvus
                              ELSE (name[r] :> empty_collection) @@ milvus
                 /\ Goto(r, "num_entities")
            ELSE /\ UNCHANGED <<collection, milvus>>
                 /\ Raise(r)
    /\ UNCHANGED <<data, bucket_name, file_key, file_content, vector, parent_folder, subfolder,
                   name, serial, probe_vars>>

\* Line 100: the entity count before the insertion, outside the try block.
NumEntities(r) ==
    /\ pc[r] = "num_entities"
    /\ scheduled(r)
    /\ \E out \in Outcomes :
         /\ Issue(r, "num_entities", collection[r], out)
         /\ IF out = "ok" THEN Goto(r, "insert") ELSE Raise(r)
    /\ UNCHANGED <<locals, milvus, serial, probe_vars>>

\* Lines 102-103, 108-110: collection.insert([vector]) inside the try block.
Insert(r) ==
    /\ pc[r] = "insert"
    /\ scheduled(r)
    /\ \E out \in Outcomes :
         /\ Issue(r, "insert", collection[r], out)
         /\ IF out = "ok"
            THEN /\ milvus' = [milvus EXCEPT ![collection[r]].rows =
                                   @ + rows_of(insert_data(vector[r]))]
                 /\ Goto(r, "flush")
            ELSE /\ UNCHANGED milvus
                 /\ Return(r, error_response(out))
    /\ UNCHANGED <<locals, serial, probe_vars>>

\* Lines 104, 108-110: collection.flush() inside the try block: the rows the
\* collection holds become visible to the entity count.
Flush(r) ==
    /\ pc[r] = "flush"
    /\ scheduled(r)
    /\ \E out \in Outcomes :
         /\ Issue(r, "flush", collection[r], out)
         /\ IF out = "ok"
            THEN /\ milvus' = [milvus EXCEPT ![collection[r]].flushed =
                                   milvus[collection[r]].rows]
                 /\ Goto(r, "respond")
            ELSE /\ UNCHANGED milvus
                 /\ Return(r, error_response(out))
    /\ UNCHANGED <<locals, serial, probe_vars>>

\* Lines 105-110: the entity count after the insertion, still inside the try
\* block, and the success response.
Respond(r) ==
    /\ pc[r] = "respond"
    /\ scheduled(r)
    /\ \E out \in Outcomes :
         /\ Issue(r, "num_entities", collection[r], out)
         /\ IF out = "ok"
            THEN Return(r, success_response(file_key[r]))
            ELSE Return(r, error_response(out))
    /\ UNCHANGED <<locals, milvus, serial, probe_vars>>

process_file(r) ==
    \/ Receive(r)
    \/ GetObject(r)
    \/ Encode(r)
    \/ ParsePath(r)
    \/ HasCollection(r)
    \/ OpenCollection(r)
    \/ CreateCollection(r)
    \/ NumEntities(r)
    \/ Insert(r)
    \/ Flush(r)
    \/ Respond(r)

Next == \E r \in Requests : process_file(r)

ProbeInit ==
    /\ probe_key = <<>>
    /\ probe_target = <<None, None>>
    /\ probe_args = << <<>>, <<>> >>
    /\ probe_names = <<None, None>>

RequestInit ==
    /\ pc = [r \in Requests |-> "idle"]
    /\ data = [r \in Requests |-> [f \in {} |-> <<>>]]
    /\ bucket_name = [r \in Requests |-> None]
    /\ file_key = [r \in Requests |-> None]
    /\ file_content = [r \in Requests |-> None]
    /\ vector = [r \in Requests |-> None]
    /\ parent_folder = [r \in Requests |-> None]
    /\ subfolder = [r \in Requests |-> None]
    /\ name = [r \in Requests |-> None]
    /\ collection = [r \in Requests |-> None]
    /\ response = [r \in Requests |-> NoResponse]
    /\ calls = [r \in Requests |-> <<>>]
    /\ milvus = [n \in {} |-> [rows |-> 0, flushed |-> 0]]

\* The threaded server: requests are handled concurrently.
Init == RequestInit /\ ProbeInit /\ serial = FALSE

\* A server that handles one request at a time.
InitSeq == RequestInit /\ ProbeInit /\ serial = TRUE

Spec == Init /\ [][Next]_vars

SpecSeq == InitSeq /\ [][Next]_vars

\* A step of a request that has arrived: the thread of the request runs
\* process_file up to the return of its next external call.
Step(r) == pc[r] # "idle" /\ process_file(r)

\* The threaded server when every external call eventually returns or
\* raises: the thread of every request that has arrived keeps running.
SpecLive == Init /\ [][Next]_vars /\ \A r \in Requests : WF_vars(Step(r))

\* --------------------------------------- the path parsing, checked alone
\* The characters of the file keys: a letter, the underscore, the separator.
KeyAlphabet == {"a", "_", "/"}

\* What a request is left with when its key is rejected.
Rejected == <<"400">>

\* Lines 91-99 and 50: the collection process_file resolves for a key.
target_collection(key) ==
    IF invalid_path(path_parts(key))
    THEN Rejected
    ELSE full_collection_name(path_parts(key)[1], path_parts(key)[2])

InitKey ==
    /\ RequestInit
    /\ serial = FALSE
    /\ probe_key \in Strings(KeyAlphabet, MaxKeyLen)
    /\ probe_target = <<None, None>>
    /\ probe_args = << <<>>, <<>> >>
    /\ probe_names = <<None, None>>

\* One of two requests with the key probe_key resolves its collection.
ResolveKey(i) ==
    /\ probe_target[i] = None
    /\ probe_target' = [probe_target EXCEPT ![i] = target_collection(probe_key)]
    /\ UNCHANGED <<request_vars, milvus, serial, probe_key, probe_args, probe_names>>

NextKey == \E i \in {1, 2} : ResolveKey(i)

SpecKey == InitKey /\ [][NextKey]_vars

\* ------------------------------- the collection identity, checked alone
\* The characters of folder names: a letter and the underscore.
FolderAlphabet == {"a", "_"}

Folders == Strings(FolderAlphabet, MaxSegLen)

InitIdentity ==
    /\ RequestInit
    /\ serial = FALSE
    /\ probe_key = <<>>
    /\ probe_target = <<None, None>>
    /\ probe_args \in (Folders \X Folders) \X (Folders \X Folders)
    /\ probe_names = <<None, None>>

\* Line 50: create_or_get_collection names the collection of a pair.
ResolveName(i) ==
    /\ probe_names[i] = None
    /\ probe_names' = [probe_names EXCEPT ![i] =
                           full_collection_name(probe_args[i][1], probe_args[i][2])]
    /\ UNCHANGED <<request_vars, milvus, serial, probe_key, probe_target, probe_args>>

NextIdentity == \E i \in {1, 2} : ResolveName(i)

SpecIdentity == InitIdentity /\ [][NextIdentity]_vars

\* ================================================================ claims
\* The positions of the separator in a key, in ascending order.
Slashes(key) == { i \in 1..Len(key) : key[i] = "/" }

Least(S) == CHOOSE i \in S : \A j \in S : i <= j

\* The first '/'-separated segment of a key, read off the key itself.
FirstSegment(key) == SubSeq(key, 1, Least(Slashes(key)) - 1)

\* The second '/'-separated segment of a key with two separators or more.
SecondSegment(key) ==
    LET i == Least(Slashes(key))
        j == Least(Slashes(key) \ {i})
    IN SubSeq(key, i + 1, j - 1)

\* the number of '/'-separated segments of a key
Segments(key) == Cardinality(Slashes(key)) + 1

HasUnderscore(s) == \E i \in 1..Len(s) : s[i] = "_"

\* C6: for every file_key with at least 3 '/'-separated segments the
\* collection process_file resolves is named first segment + "_" + second
\* segment, and two requests with the same key resolve the same name.
C6_TargetIsFirstUnderscoreSecond ==
    /\ \A i \in {1, 2} :
         probe_target[i] # None /\ Segments(probe_key) >= 3 =>
             probe_target[i] = FirstSegment(probe_key) \o <<"_">> \o SecondSegment(probe_key)
    /\ probe_target[1] # None /\ probe_target[2] # None =>
           probe_target[1] = probe_target[2]

\* C6 witness: both requests resolved a key of four segments whose second
\* segment is empty.
C6_Witness ==
    /\ probe_key = <<"a", "/", "/", "/">>
    /\ probe_target = << <<"a", "_">>, <<"a", "_">> >>

\* C9, as claimed: identical pairs resolve to the same name and two distinct
\* pairs never resolve to the same name.
C9_Injective ==
    probe_names[1] # None /\ probe_names[2] # None =>
        (probe_args[1] = probe_args[2] <=> probe_names[1] = probe_names[2])

\* C9, amended: identical pairs resolve to the same name, and two distinct
\* pairs resolve to the same name only when a parent folder and a subfolder
\* among them contain an underscore.
C9_InjectiveWithoutUnderscore ==
    probe_names[1] # None /\ probe_names[2] # None =>
        /\ probe_args[1] = probe_args[2] => probe_names[1] = probe_names[2]
        /\ probe_args[1] # probe_args[2] /\ probe_names[1] = probe_names[2] =>
             /\ HasUnderscore(probe_args[1][1]) \/ HasUnderscore(probe_args[2][1])
             /\ HasUnderscore(probe_args[1][2]) \/ HasUnderscore(probe_args[2][2])

\* C9 witness: two distinct pairs without underscores whose names differ
\* although their characters agree.
C9_Witness ==
    /\ probe_args = << << <<"a">>, <<>> >>, << <<>>, <<"a">> >> >>
    /\ probe_names = << <<"a", "_">>, <<"_", "a">> >>

\* ------------------------------------------------ the requests' claims
\* A field of the request body is absent or empty.
AbsentOrEmpty(body, f) == f \notin DOMAIN body \/ body[f] = <<>>

Terminal(r) == pc[r] \in {"returned", "raised"}

\* The positions of a request's calls of an operation.
CallsOf(r, op) == { i \in 1..Len(calls[r]) : calls[r][i].op = op }

\* The positions of a request's calls of an operation that returned.
ReturnedCallsOf(r, op) == { i \in CallsOf(r, op) : calls[r][i].out \notin Details }

\* The calls of an operation on a collection, over all requests.
CallsOn(op, n) ==
    UNION { { <<r, i>> : i \in { j \in CallsOf(r, op) : calls[r][j].arg = n } } :
            r \in Requests }

ReturnedCallsOn(op, n) ==
    { c \in CallsOn(op, n) : calls[c[1]][c[2]].out \notin Details }

\* The last call of a request raised.
LastCallRaised(r, op) ==
    /\ calls[r] # <<>>
    /\ calls[r][Len(calls[r])].op = op
    /\ calls[r][Len(calls[r])].out \in Details

\* C1, as claimed: a request with both fields present whose file_key has
\* fewer than 3 segments issues no external call and is answered 400.
C1_MalformedKeyRejectedBeforeAnyCall ==
    \A r \in Requests :
        /\ pc[r] # "idle"
        /\ ~AbsentOrEmpty(data[r], "bucket_name")
        /\ ~AbsentOrEmpty(data[r], "file_key")
        /\ Segments(data[r]["file_key"]) < 3
        => /\ calls[r] = <<>>
           /\ Terminal(r) => pc[r] = "returned" /\ response[r].status = 400

\* C2: a request in which bucket_name or file_key is absent or empty is
\* answered 400 "Missing bucket_name or file_key" and issues no external call.
C2_MissingFieldRejectedBeforeAnyCall ==
    \A r \in Requests :
        /\ pc[r] # "idle"
        /\ AbsentOrEmpty(data[r], "bucket_name") \/ AbsentOrEmpty(data[r], "file_key")
        => /\ pc[r] = "returned"
           /\ response[r] = [status |-> 400, field |-> "error",
                             text |-> <<"Missing bucket_name or file_key">>]
           /\ calls[r] = <<>>

\* C2 witness: a request without bucket_name and with a well-formed key was
\* answered.
C2_Witness ==
    \E r \in Requests :
        /\ pc[r] = "returned"
        /\ "bucket_name" \notin DOMAIN data[r]
        /\ "file_key" \in DOMAIN data[r]
        /\ Segments(data[r]["file_key"]) >= 3

\* The names of the collections the requests can resolve.
Names == { target_collection(k) : k \in FileKeys } \ {Rejected}

\* C3, as claimed: with requests handled one at a time, createCollection is
\* issued at most once per collection identity.
C3_CreateIssuedAtMostOnce ==
    \A n \in Names : Cardinality(CallsOn("create_collection", n)) <= 1

\* C3, amended: with requests handled one at a time, createCollection is
\* never issued for an identity whose collection exists, and at most one
\* createCollection per identity returns.
C3_NoSecondCollection ==
    /\ \A r \in Requests : pc[r] = "create" => name[r] \notin DOMAIN milvus
    /\ \A n \in Names : Cardinality(ReturnedCallsOn("create_collection", n)) <= 1

\* C3 witness: two requests with different files under the same prefix, the
\* first created the collection, the second found it and inserted into it.
C3_Witness ==
    \E r, q \in Requests :
        /\ file_key[r] # file_key[q]
        /\ name[r] = name[q]
        /\ ReturnedCallsOf(r, "create_collection") # {}
        /\ CallsOf(q, "create_collection") = {}
        /\ ReturnedCallsOf(q, "insert") # {}

C5_OneRowPerSuccess ==
    /\ \A r \in Requests :
         response[r].status = 200 =>
             /\ Cardinality(ReturnedCallsOf(r, "insert")) = 1
             /\ \A i \in ReturnedCallsOf(r, "insert") : calls[r][i].arg = collection[r]
             /\ collection[r] \in DOMAIN milvus
    /\ \A n \in DOMAIN milvus :
         milvus[n].rows = Cardinality(ReturnedCallsOn("insert", n))

\* C5 witness: two requests with the same key were answered 200 and the
\* collection holds two rows.
C5_Witness ==
    \E r, q \in Requests :
        /\ r # q
        /\ file_key[r] = file_key[q]
        /\ response[r].status = 200
        /\ response[q].status = 200
        /\ milvus[collection[r]].rows = 2

\* C7: when insert or flush raises, process_file returns 500 with the error
\* "Error inserting vector: <detail>", the exception does not leave the
\* handler, and the other requests go on.
C7_InsertFlushFailureCaught ==
    \A r \in Requests :
        LastCallRaised(r, "insert") \/ LastCallRaised(r, "flush") =>
            /\ pc[r] = "returned"
            /\ response[r] = [status |-> 500, field |-> "error",
                              text |-> <<"Error inserting vector: ",
                                         calls[r][Len(calls[r])].out>>]
            /\ \A q \in Requests \ {r} : in_flight(q) => ENABLED process_file(q)
            /\ \A q \in Requests \ {r} :
                 pc[q] = "idle" /\ (\A o \in Requests : o < q => pc[o] # "idle")
                     => ENABLED Receive(q)

\* C7 witness: the insert of a request returned, its flush raised and it was
\* answered 500, while another request is still in flight.
C7_Witness ==
    \E r, q \in Requests :
        /\ LastCallRaised(r, "flush")
        /\ response[r].status = 500
        /\ in_flight(q)

\* The external calls in the order the stages issue them.
StageOrder ==
    <<"get_object", "encode", "has_collection", "create_collection", "insert", "flush">>

StageOf(op) == CHOOSE i \in 1..Len(StageOrder) : StageOrder[i] = op

\* C8, as claimed: the presence and segment-count checks precede every
\* external call, the external calls follow in the order of the stages, each
\* is issued at most once, and 200 is returned only after flush returned.
C8_StagesInOrder ==
    \A r \in Requests :
        /\ calls[r] # <<>> =>
             /\ ~AbsentOrEmpty(data[r], "bucket_name")
             /\ ~AbsentOrEmpty(data[r], "file_key")
             /\ Segments(data[r]["file_key"]) >= 3
        /\ \A op \in { StageOrder[i] : i \in 1..Len(StageOrder) } :
             Cardinality(CallsOf(r, op)) <= 1
        /\ \A i, j \in 1..Len(calls[r]) :
             /\ i < j
             /\ calls[r][i].op \in { StageOrder[k] : k \in 1..Len(StageOrder) }
             /\ calls[r][j].op \in { StageOrder[k] : k \in 1..Len(StageOrder) }
             => StageOf(calls[r][i].op) < StageOf(calls[r][j].op)
        /\ response[r].status = 200 => ReturnedCallsOf(r, "flush") # {}

\* C10: a 200 response carries the message "Successfully inserted vector for "
\* followed by exactly the file_key of the request body.
C10_MessageNamesSubmittedKey ==
    \A r \in Requests :
        response[r].status = 200 =>
            /\ response[r].field = "message"
            /\ response[r].text =
                   <<"Successfully inserted vector for ">> \o data[r]["file_key"]

\* C10 witness: a request with a key of four segments was answered 200.
C10_Witness ==
    \E r \in Requests :
        /\ response[r].status = 200
        /\ Segments(data[r]["file_key"]) = 4

\* The external calls of the stages before the try block.
EarlyCalls == {"get_object", "encode", "has_collection", "create_collection"}

\* C11, as claimed: only a failure of insert or flush gives the 500
\* response, and a failure of the fetch, the decoding, the embedding,
\* hasCollection or createCollection leaves process_file unhandled with no
\* insert and no flush issued.
C11_OnlyInsertFlushFailuresGive500 ==
    \A r \in Requests :
        /\ response[r].status = 500 =>
               LastCallRaised(r, "insert") \/ LastCallRaised(r, "flush")
        /\ (\E op \in EarlyCalls : LastCallRaised(r, op)) \/ pc[r] = "raised" =>
               /\ pc[r] = "raised"
               /\ response[r] = NoResponse
               /\ CallsOf(r, "insert") = {}
               /\ CallsOf(r, "flush") = {}

\* C13, as claimed: the two folders process_file hands to
\* create_or_get_collection are non-empty strings.
C13_FoldersNonEmpty ==
    \A r \in Requests :
        CallsOf(r, "has_collection") # {} =>
            parent_folder[r] # <<>> /\ subfolder[r] # <<>>

\* A request is told by has_collection that its collection exists.
ToldExists(q) == \E i \in CallsOf(q, "has_collection") : calls[q][i].out = "True"

\* What holds in every state for C12: the collection a request created is
\* still there after its insert or flush raised, with no entity to count
\* unless another request inserted into it, and a request that is told the
\* collection exists never issues createCollection.
C12_CreatedCollectionStays ==
    /\ \A r \in Requests :
         /\ ReturnedCallsOf(r, "create_collection") # {}
         /\ LastCallRaised(r, "insert") \/ LastCallRaised(r, "flush")
         => /\ name[r] \in DOMAIN milvus
            /\ (\A c \in ReturnedCallsOn("insert", name[r]) : c[1] = r) =>
                   milvus[name[r]].flushed = 0
    /\ \A q \in Requests : ToldExists(q) => CallsOf(q, "create_collection") = {}

\* What holds of every step for C12: no collection disappears or loses
\* rows, and a has_collection that returns for an existing collection
\* answers True.
C12_Step ==
    /\ DOMAIN milvus \subseteq DOMAIN milvus'
    /\ \A n \in DOMAIN milvus : milvus'[n].rows >= milvus[n].rows
    /\ \A q \in Requests :
         /\ pc[q] = "has_collection"
         /\ pc'[q] \in {"open", "create"}
         /\ name'[q] \in DOMAIN milvus
         => pc'[q] = "open" /\ calls'[q][Len(calls'[q])].out = "True"

MilvusCalls(r) ==
    { i \in 1..Len(calls[r]) :
        calls[r][i].op \in {"has_collection", "get_collection", "create_collection",
                            "num_entities", "insert", "flush"} }

\* C14, as claimed: a request answered 400 issued no vector-database call,
\* and a request answered 500 left no row of its own in its collection.
C14_StateUnchangedOnError ==
    /\ \A r \in Requests : response[r].status = 400 => MilvusCalls(r) = {}
    /\ \A r \in Requests : response[r].status = 500 => ReturnedCallsOf(r, "insert") = {}
    /\ \A n \in DOMAIN milvus :
         milvus[n].rows =
             Cardinality({ c \in ReturnedCallsOn("insert", n) :
                             response[c[1]].status # 500 })

\* C14, amended: a request answered 400 issued no vector-database call and
\* created no collection; a request answered 500 left no row of its own
\* only when its insert raised: when its insert returned and a later call of
\* the try block raised, the row it inserted stays in the collection.
C14_RowStaysUnlessInsertRaised ==
    /\ \A r \in Requests :
         response[r].status = 400 =>
             /\ MilvusCalls(r) = {}
             /\ collection[r] = None
    /\ \A r \in Requests :
         response[r].status = 500 =>
             /\ Cardinality(ReturnedCallsOf(r, "insert")) =
                    IF LastCallRaised(r, "insert") THEN 0 ELSE 1
             /\ collection[r] \in DOMAIN milvus
             /\ milvus[collection[r]].rows >= Cardinality(ReturnedCallsOf(r, "insert"))
    /\ \A n \in DOMAIN milvus :
         milvus[n].rows = Cardinality(ReturnedCallsOn("insert", n))

\* C14 witness: a request was answered 500 for its flush and the only row
\* of its collection is the one it inserted; another request was answered
\* 400 after the fetch and the embedding, or 500 for its insert.
C14_Witness ==
    /\ \E r \in Requests :
         /\ response[r].status = 500
         /\ LastCallRaised(r, "flush")
         /\ milvus[collection[r]].rows = 1
         /\ \A c \in ReturnedCallsOn("insert", collection[r]) : c[1] = r
    /\ \E q \in Requests :
         \/ response[q].status = 400 /\ calls[q] # <<>>
         \/ response[q].status = 500 /\ LastCallRaised(q, "insert")

\* The four terminal outcomes of a request.
Outcome(r) ==
    IF pc[r] = "raised" THEN "unhandled"
    ELSE IF pc[r] = "returned" /\ response[r].status = 400 THEN "rejected"
    ELSE IF pc[r] = "returned" /\ response[r].status = 200 THEN "succeeded"
    ELSE IF pc[r] = "returned" /\ response[r].status = 500 THEN "failed"
    ELSE "none"

\* C15: provided every external call eventually returns or raises, every
\* request that arrived eventually reaches a terminal outcome (rejected,
\* succeeded, failed or unhandled) and keeps that one outcome, also with
\* concurrent requests on the same collection; a request in flight never
\* waits on another request.
\* A request that arrived never becomes idle again and a terminal request
\* keeps its outcome, so "from some point on no request is in flight" says
\* that every request that arrived has reached its terminal outcome.
C15_EveryRequestTerminates ==
    /\ <>[](\A r \in Requests : ~in_flight(r))
    /\ [](\A r \in Requests :
            /\ in_flight(r) => ENABLED Step(r)
            /\ Terminal(r) <=> Outcome(r) # "none")
    /\ [][\A r \in Requests :
            /\ pc[r] # "idle" => pc'[r] # "idle"
            /\ Terminal(r) => pc'[r] = pc[r] /\ response'[r] = response[r]]_vars

\* C15 witness: two requests ran on the same collection; one succeeded and
\* the other ended with an unhandled failure of its createCollection.
C15_Witness ==
    \E r, q \in Requests :
        /\ name[r] = name[q]
        /\ Outcome(r) = "succeeded"
        /\ Outcome(q) = "unhandled"
        /\ LastCallRaised(q, "create_collection")

====
